---- MODULE Spec2Model ----
(***************************************************************************)
(* Scatter-gather aggregator of the weather server.                        *)
(*                                                                         *)
(* One batch request: the handler dispatches one worker goroutine per      *)
(* city, each worker calls sendWeatherRequest once and publishes the       *)
(* outcome, and the handler gathers the results:                           *)
(*   strategy "A"  getWeatherStressTest0  SharedQueue.Push + wg.Wait       *)
(*   strategy "B"  getWeatherStressTest1  buffered channel                 *)
(*   strategy "C"  getWeatherStressTest2  SharedQueue.Push + GetAllBlocking*)
(*   strategy "D"  getWeatherStressTest3  FastPush + GetAllYielding / Pop  *)
(*                                                                         *)
(* Granularity: one step per statement that touches shared state.  A       *)
(* section RLock; read; RUnlock and the section NotifyMutex.Lock; toggle;  *)
(* NotifyMutex.Unlock hold one access each and are one step, enabled when  *)
(* the lock can be taken.  The write lock of q.mutex is held over several  *)
(* statements and is a variable (mutex).  time.Sleep is not modelled; a     *)
(* spin iteration that reads and retries is a stuttering step.  Log calls  *)
(* are modelled where they read shared state: the two prints of sq.data in *)
(* getWeatherStressTest3, in the specification SpecDLog.                   *)
(***************************************************************************)
EXTENDS Naturals, Sequences, FiniteSets

\* Largest number of cities of a batch (the handlers use 23 and 60).
MaxTasks == 3

\* Largest number of cities of a strategy D batch (the handler uses 60).
MaxTasksD == 2

\* Largest number of further GetAll calls made on the queue of a batch, and
\* the largest number of cities of a batch that is read this way.
MaxSnaps == 2
MaxTasksObs == 2

\* Largest number of concurrent requests to getWeatherStressTest0, and the
\* number of cities of each of them.
MaxBatches == 2
BatchTasks == 2

\* Largest number of goroutines that call methods of one SharedQueue in the
\* lock-level machine.
MaxLockers == 3

\* Capacity of the rendezvous channel of strategy D: make(chan WeatherData, 1).
ChanCapD == 1

VARIABLES
  strategy,    \* which handler serves the batch: "A", "B", "C" or "D"
  pushMode,    \* publish operation of the queue workers: "Push" or "FastPush"
  n,           \* len(cities)
  hpc,         \* position of the handler goroutine
  dispatched,  \* workers started so far by the dispatch loop
  wg,          \* sync.WaitGroup counter (strategy A)
  wpc,         \* position of each worker goroutine
  item,        \* weatherData each worker holds after the fetch
  published,   \* completed publishes (append / channel send) of each worker
  data,        \* SharedQueue.data
  notify,      \* SharedQueue.notify
  mutex,       \* holder of the write lock of SharedQueue.mutex, or Free
  channel,     \* buffered contents of the handler's channel
  closed,      \* the channel has been closed
  count,       \* remaining iterations of GetAllYielding
  ypc,         \* position of each yield consumer goroutine
  tmp,         \* tmp of each Pop call
  recvd,       \* loop index i of the handler's receive loop
  results,     \* what the handler has gathered
  panicked,    \* a goroutine panicked: the process is gone
  err,         \* err of each worker: sendWeatherRequest returned a non-nil error
  lockOrder,   \* history: the workers in the order their appends took the write lock
  snaps,       \* history: the snapshots further GetAll calls have returned
  removedSince, \* history: removals from q.data since q.notify last changed
  popOrder,    \* history: the tags Pop calls removed, in the order of the removals
  heap,        \* concurrent requests: the SharedQueue objects allocated so far
  sqOf,        \* concurrent requests: sq of each request, 0 before it is set
  bpc,         \* concurrent requests: position of each request's handler
  bwpc,        \* concurrent requests: position of each request's workers
  bres,        \* concurrent requests: what each handler has gathered
  gop,         \* lock level: the SharedQueue method each goroutine has called
  garg,        \* lock level: count of a GetAllBlocking call
  gpc,         \* lock level: <<statement, step of the nested call>> of each goroutine
  glen,        \* lock level: tmp of the goroutine's GetLength call
  gflag,       \* lock level: what the goroutine's CheckNotify call returned
  seqW,        \* lock level: goroutine holding q.mutex exclusively, 0 if none
  seqR,        \* lock level: goroutines holding q.mutex shared
  ntfW,        \* lock level: goroutine holding q.NotifyMutex exclusively, 0 if none
  ntfR,        \* lock level: goroutines holding q.NotifyMutex shared
  qdata,       \* lock level: q.data
  qnotify,     \* lock level: q.notify
  logs,        \* strategy D: prints of sq.data the handler has made
  qlog         \* strategy D: what the handler's last print of sq.data read, and
               \* who held q.mutex exclusively during that read

vars == <<strategy, pushMode, n, hpc, dispatched, wg, wpc, item, published,
          data, notify, mutex, channel, closed, count, ypc, tmp, recvd,
          results, panicked, err, lockOrder, snaps, removedSince, popOrder, heap, sqOf, bpc, bwpc, bres,
          gop, garg, gpc, glen, gflag, seqW, seqR, ntfW, ntfR, qdata, qnotify, logs, qlog>>

queueVars == <<data, notify, mutex>>
chanVars == <<channel, closed>>
yieldVars == <<count, ypc, tmp>>
setupVars == <<strategy, pushMode, n>>
batchVars == <<heap, sqOf, bpc, bwpc, bres>>
lockVars == <<gop, garg, gpc, glen, gflag, seqW, seqR, ntfW, ntfR, qdata, qnotify>>
logVars == <<logs, qlog>>
auxVars == <<snaps, batchVars, removedSince, popOrder, lockVars, logVars>>

Tasks == 1..MaxTasks
Batches == 1..MaxBatches
Lockers == 1..MaxLockers
Strategies == {"A", "B", "C", "D"}

\* WeatherData{}: the zero-valued record every failing path returns.
Sentinel == 0

\* mutex value when no goroutine holds the write lock.
Free == <<>>
W(w) == <<"worker", w>>
Y(c) == <<"yield", c>>

NoItem == [tag |-> 0, val |-> Sentinel]

\* Owner of an RWMutex nobody holds exclusively.
NoOwner == 0

----------------------------------------------------------------------------
(* Pure operations *)

\* http.StatusOK, and the status of a request the API refuses.
StatusOK == 200
StatusUnauthorized == 401

\* What a call of sendWeatherRequest meets: parseApiKey fails, client.Get
\* fails (transport error or timeout), the status of the response, and
\* whether the body decodes.
FetchEnvs ==
  [keyErr : BOOLEAN, getErr : BOOLEAN,
   status : {StatusOK, StatusUnauthorized}, decodeErr : BOOLEAN]

\* sendWeatherRequest, its returns in the order of the code.  err is TRUE for
\* a non-nil error.  Location w's decoded record is modelled as w.
sendWeatherRequestPartial(location, env) ==
  IF env.keyErr THEN [data |-> Sentinel, err |-> TRUE]
  ELSE IF env.getErr THEN [data |-> Sentinel, err |-> TRUE]
  ELSE IF env.status # StatusOK THEN [data |-> Sentinel, err |-> TRUE]
  ELSE IF env.decodeErr THEN [data |-> location, err |-> TRUE]
  ELSE [data |-> location, err |-> FALSE]
sendWeatherRequest(location, env) ==
  IF env.keyErr THEN [data |-> Sentinel, err |-> TRUE]
  ELSE IF env.getErr THEN [data |-> Sentinel, err |-> TRUE]
  ELSE IF env.status # StatusOK THEN [data |-> Sentinel, err |-> TRUE]
  ELSE IF env.decodeErr THEN [data |-> Sentinel, err |-> TRUE]
  ELSE [data |-> location, err |-> FALSE]

\* len(q.data), as GetLength reads it.
GetLengthPlusOne(q) == Len(q) + 1
GetLength(q) == Len(q)

\* q.notify = !q.notify
Toggle(flag) == ~flag

\* CheckNotify returns !q.notify.
CheckNotify(flag) == ~flag

\* q.data = append(q.data, data)
AppendFront(q, d) == <<d>> \o q
AppendData(q, d) == Append(q, d)

\* q.data = q.data[1:]
DropAll(q) == <<>>
DropHead(q) == Tail(q)

\* q.mutex.Lock() / RLock() can be taken when no writer holds the lock.
CanLockAlways(m) == TRUE
CanLock(m) == m = Free

\* results = append(results, q.data...)
SnapshotReversed(q) == [i \in 1..Len(q) |-> q[Len(q) + 1 - i]]
Snapshot(q) == q

\* wg.Wait() returns when the counter is zero.
WaitReleasedEarly(counter) == TRUE
WaitReleased(counter) == counter = 0

\* GetAllBlocking leaves its loop  for q.GetLength() < count  when the test fails.
ThresholdReachedEarly(length, cnt) == TRUE
ThresholdReachedStrict(length, cnt) == length > cnt
ThresholdReached(length, cnt) == ~(length < cnt)

\* The receive loop  for i := 0; i < len(cities); i++  runs while this holds.
RecvMoreShort(i, len) == i + 1 < len
RecvMore(i, len) == i < len

\* Response assembly reads data.Weather[0].Description in getWeatherStressTest0
\* and getWeatherStressTest1; the line is commented out in the other two.
ReadsDescription(s) == s \in {"A", "B"}

\* len(d.Weather) > 0: a decoded record has a weather entry, WeatherData{} has none.
HasWeather(d) == d.val # Sentinel

\* Assembling the entries of rs indexes Weather[0] of a record that has none.
AssemblyPanics(s, rs) ==
  ReadsDescription(s) /\ \E i \in 1..Len(rs) : ~HasWeather(rs[i])

\* make(chan WeatherData, len(cities)) / make(chan WeatherData, 1)
ChanCapRendezvous == ChanCapD
ChanCap == IF strategy = "B" THEN n ELSE ChanCapD

----------------------------------------------------------------------------
Init ==
  /\ strategy \in Strategies
  /\ pushMode \in {"Push", "FastPush"}
  /\ strategy \in {"A", "C"} => pushMode = "Push"
  /\ strategy = "B" => pushMode = "Push"
  /\ n \in 0..(IF strategy = "D" THEN MaxTasksD ELSE MaxTasks)
  /\ hpc = "dispatch"
  /\ dispatched = 0
  /\ wg = 0
  /\ wpc = [w \in Tasks |-> "idle"]
  /\ item = [w \in Tasks |-> NoItem]
  /\ published = [w \in Tasks |-> 0]
  /\ data = <<>>
  /\ notify = (strategy = "D")
  /\ mutex = Free
  /\ channel = <<>>
  /\ closed = FALSE
  /\ count = 0
  /\ ypc = [c \in Tasks |-> "idle"]
  /\ tmp = [c \in Tasks |-> NoItem]
  /\ recvd = 0
  /\ results = <<>>
  /\ panicked = FALSE
  /\ err = [w \in Tasks |-> FALSE]
  /\ lockOrder = <<>>
  /\ snaps = <<>>
  /\ removedSince = 0
  /\ popOrder = <<>>
  /\ heap = <<>>
  /\ sqOf = [b \in Batches |-> 0]
  /\ bpc = [b \in Batches |-> "new"]
  /\ bwpc = [b \in Batches |-> [w \in 1..BatchTasks |-> "idle"]]
  /\ bres = [b \in Batches |-> <<>>]
  /\ gop = [g \in Lockers |-> "none"]
  /\ garg = [g \in Lockers |-> 0]
  /\ gpc = [g \in Lockers |-> <<"idle", "">>]
  /\ glen = [g \in Lockers |-> 0]
  /\ gflag = [g \in Lockers |-> FALSE]
  /\ seqW = NoOwner
  /\ seqR = {}
  /\ ntfW = NoOwner
  /\ ntfR = {}
  /\ qdata = <<>>
  /\ qnotify = (strategy = "D")
  /\ logs = 0
  /\ qlog = [seen |-> <<>>, during |-> Free]

----------------------------------------------------------------------------
(* Workers: stressTestHelper0..3, started by the dispatch loop *)

\* Where a worker publishes: c <- weatherData (B), sq.FastPush (D), sq.Push.
PublishEntry ==
  IF strategy = "B" THEN "send"
  ELSE IF pushMode = "FastPush" THEN "try_len" ELSE "push_lock"

\* After the helper returns: defer wg.Done() in strategy A, else the goroutine ends.
AfterPublish == IF strategy = "A" THEN "wgdone" ELSE "done"

\* if err != nil { publish(weatherData); log; return err }
FetchErrorDrop == AfterPublish
FetchErrorEntry == PublishEntry

\* weatherData, err := sendWeatherRequest(location), then the branch on err.
\* The item carries the worker's index as the tag of its one append.
Fetch(w) ==
  /\ ~panicked
  /\ wpc[w] = "fetch"
  /\ \E env \in FetchEnvs :
       LET r == sendWeatherRequest(w, env) IN
         /\ item' = [item EXCEPT ![w] = [tag |-> w, val |-> r.data]]
         /\ err' = [err EXCEPT ![w] = r.err]
         /\ wpc' = [wpc EXCEPT ![w] = IF r.err THEN FetchErrorEntry ELSE PublishEntry]
  /\ UNCHANGED <<setupVars, lockOrder, auxVars, hpc, dispatched, wg, published, queueVars, chanVars,
                 yieldVars, recvd, results, panicked>>

\* Fault injection: the worker goroutine panics inside the helper after the
\* fetch has begun and before its publish.  go func(city string) {...}(city)
\* has no deferred recover, so the panic of the goroutine ends the process.
FetchPanic(w) ==
  /\ ~panicked
  /\ wpc[w] = "fetch"
  /\ wpc' = [wpc EXCEPT ![w] = "crashed"]
  /\ panicked' = TRUE
  /\ UNCHANGED <<setupVars, err, lockOrder, auxVars, hpc, dispatched, wg, item, published, queueVars, chanVars,
                 yieldVars, recvd, results>>

\* Push: the statement that follows q.mutex.Lock() is the append; the fetch
\* has returned before Push is called.
AfterLockFetch == "fetch"
AfterLock == "push_append"

\* Push: q.mutex.Lock()
PushLock(w) ==
  /\ ~panicked
  /\ wpc[w] = "push_lock"
  /\ CanLock(mutex)
  /\ mutex' = W(w)
  /\ lockOrder' = Append(lockOrder, w)
  /\ wpc' = [wpc EXCEPT ![w] = AfterLock]
  /\ UNCHANGED <<setupVars, err, auxVars, hpc, dispatched, wg, item, published, data, notify,
                 chanVars, yieldVars, recvd, results, panicked>>

\* Push: q.data = append(q.data, data)
PushAppend(w) ==
  /\ ~panicked
  /\ wpc[w] = "push_append"
  /\ data' = AppendData(data, item[w])
  /\ published' = [published EXCEPT ![w] = @ + 1]
  /\ wpc' = [wpc EXCEPT ![w] = "push_notify"]
  /\ UNCHANGED <<setupVars, err, lockOrder, auxVars, hpc, dispatched, wg, item, notify, mutex, chanVars,
                 yieldVars, recvd, results, panicked>>

\* Push: q.Notify()
PushNotify(w) ==
  /\ ~panicked
  /\ wpc[w] = "push_notify"
  /\ notify' = Toggle(notify)
  /\ removedSince' = 0
  /\ wpc' = [wpc EXCEPT ![w] = "push_unlock"]
  /\ UNCHANGED <<setupVars, err, lockOrder, snaps, batchVars, lockVars, logVars, popOrder, hpc, dispatched, wg, item, published, data, mutex,
                 chanVars, yieldVars, recvd, results, panicked>>

\* Push: q.mutex.Unlock()
PushUnlock(w) ==
  /\ ~panicked
  /\ wpc[w] = "push_unlock"
  /\ mutex' = Free
  /\ wpc' = [wpc EXCEPT ![w] = AfterPublish]
  /\ UNCHANGED <<setupVars, err, lockOrder, auxVars, hpc, dispatched, wg, item, published, data, notify,
                 chanVars, yieldVars, recvd, results, panicked>>

\* defer wg.Done()
WgDone(w) ==
  /\ ~panicked
  /\ wpc[w] = "wgdone"
  /\ wg' = wg - 1
  /\ wpc' = [wpc EXCEPT ![w] = "done"]
  /\ UNCHANGED <<setupVars, err, lockOrder, auxVars, hpc, dispatched, item, published, queueVars, chanVars,
                 yieldVars, recvd, results, panicked>>

\* stressTestHelper1: c <- weatherData.  A send on a closed channel panics;
\* a send on a full channel blocks.
Send(w) ==
  /\ ~panicked
  /\ wpc[w] = "send"
  /\ IF closed
       THEN /\ panicked' = TRUE
            /\ UNCHANGED <<wpc, channel, published>>
       ELSE /\ Len(channel) < ChanCap
            /\ channel' = Append(channel, item[w])
            /\ published' = [published EXCEPT ![w] = @ + 1]
            /\ wpc' = [wpc EXCEPT ![w] = "done"]
            /\ UNCHANGED panicked
  /\ UNCHANGED <<setupVars, err, lockOrder, auxVars, hpc, dispatched, wg, item, queueVars, closed,
                 yieldVars, recvd, results>>

\* TryPush: if q.GetLength() > 0 { ... }
TryLen(w) ==
  /\ ~panicked
  /\ wpc[w] = "try_len"
  /\ CanLock(mutex)
  /\ wpc' = [wpc EXCEPT ![w] = IF GetLength(data) > 0 THEN "try_fail" ELSE "try_lock"]
  /\ UNCHANGED <<setupVars, err, lockOrder, auxVars, hpc, dispatched, wg, item, published, queueVars,
                 chanVars, yieldVars, recvd, results, panicked>>

\* TryPush: q.Notify(); return false.  FastPush sleeps and calls TryPush again.
TryFail(w) ==
  /\ ~panicked
  /\ wpc[w] = "try_fail"
  /\ notify' = Toggle(notify)
  /\ removedSince' = 0
  /\ wpc' = [wpc EXCEPT ![w] = "try_len"]
  /\ UNCHANGED <<setupVars, err, lockOrder, snaps, batchVars, lockVars, logVars, popOrder, hpc, dispatched, wg, item, published, data, mutex,
                 chanVars, yieldVars, recvd, results, panicked>>

\* TryPush: q.mutex.Lock()
TryLock(w) ==
  /\ ~panicked
  /\ wpc[w] = "try_lock"
  /\ CanLock(mutex)
  /\ mutex' = W(w)
  /\ lockOrder' = Append(lockOrder, w)
  /\ wpc' = [wpc EXCEPT ![w] = "try_append"]
  /\ UNCHANGED <<setupVars, err, auxVars, hpc, dispatched, wg, item, published, data, notify,
                 chanVars, yieldVars, recvd, results, panicked>>

\* TryPush: q.data = append(q.data, data)
TryAppend(w) ==
  /\ ~panicked
  /\ wpc[w] = "try_append"
  /\ data' = AppendData(data, item[w])
  /\ published' = [published EXCEPT ![w] = @ + 1]
  /\ wpc' = [wpc EXCEPT ![w] = "try_notify"]
  /\ UNCHANGED <<setupVars, err, lockOrder, auxVars, hpc, dispatched, wg, item, notify, mutex, chanVars,
                 yieldVars, recvd, results, panicked>>

\* TryPush: q.Notify() after the append
TryNotify(w) ==
  /\ ~panicked
  /\ wpc[w] = "try_notify"
  /\ notify' = Toggle(notify)
  /\ removedSince' = 0
  /\ wpc' = [wpc EXCEPT ![w] = "try_unlock"]
  /\ UNCHANGED <<setupVars, err, lockOrder, snaps, batchVars, lockVars, logVars, popOrder, hpc, dispatched, wg, item, published, data, mutex,
                 chanVars, yieldVars, recvd, results, panicked>>

\* TryPush: q.mutex.Unlock(); return true
TryUnlock(w) ==
  /\ ~panicked
  /\ wpc[w] = "try_unlock"
  /\ mutex' = Free
  /\ wpc' = [wpc EXCEPT ![w] = AfterPublish]
  /\ UNCHANGED <<setupVars, err, lockOrder, auxVars, hpc, dispatched, wg, item, published, data, notify,
                 chanVars, yieldVars, recvd, results, panicked>>

----------------------------------------------------------------------------
(* Yield consumers: the goroutines of GetAllYielding, each ch <- q.Pop() *)

\* Check: for q.GetLength() < 1 { sleep }.  Passes once the length is >= 1.
PopCheck(c) ==
  /\ ~panicked
  /\ ypc[c] = "check"
  /\ CanLock(mutex)
  /\ GetLength(data) >= 1
  /\ ypc' = [ypc EXCEPT ![c] = "lock"]
  /\ UNCHANGED <<setupVars, err, lockOrder, auxVars, hpc, dispatched, wg, wpc, item, published, queueVars,
                 chanVars, count, tmp, recvd, results, panicked>>

\* Pop: q.mutex.Lock(), before the loop and at the end of the loop body
PopLock(c) ==
  /\ ~panicked
  /\ ypc[c] = "lock"
  /\ CanLock(mutex)
  /\ mutex' = Y(c)
  /\ ypc' = [ypc EXCEPT ![c] = "checknotify"]
  /\ UNCHANGED <<setupVars, err, lockOrder, auxVars, hpc, dispatched, wg, wpc, item, published, data, notify,
                 chanVars, count, tmp, recvd, results, panicked>>

\* Pop: for q.CheckNotify() { ... }
PopCheckNotify(c) ==
  /\ ~panicked
  /\ ypc[c] = "checknotify"
  /\ ypc' = [ypc EXCEPT ![c] = IF CheckNotify(notify) THEN "retry" ELSE "head"]
  /\ UNCHANGED <<setupVars, err, lockOrder, auxVars, hpc, dispatched, wg, wpc, item, published, queueVars,
                 chanVars, count, tmp, recvd, results, panicked>>

\* Pop, loop body: q.mutex.Unlock() leaves the lock free.
RetryUnlockKeep(m) == m
RetryUnlock(m) == Free

\* Pop, loop body: the statement after the Unlock is q.Check().
AfterRetrySkipCheck == "lock"
AfterRetry == "check"

\* Pop, loop body: q.mutex.Unlock(), then q.Check() and q.mutex.Lock() again
PopRetry(c) ==
  /\ ~panicked
  /\ ypc[c] = "retry"
  /\ mutex' = RetryUnlock(mutex)
  /\ ypc' = [ypc EXCEPT ![c] = AfterRetry]
  /\ UNCHANGED <<setupVars, err, lockOrder, auxVars, hpc, dispatched, wg, wpc, item, published, data, notify,
                 chanVars, count, tmp, recvd, results, panicked>>

\* Pop: tmp := q.data[0].  Indexing an empty slice panics.
PopHead(c) ==
  /\ ~panicked
  /\ ypc[c] = "head"
  /\ IF Len(data) = 0
       THEN /\ panicked' = TRUE
            /\ UNCHANGED <<ypc, tmp>>
       ELSE /\ tmp' = [tmp EXCEPT ![c] = Head(data)]
            /\ ypc' = [ypc EXCEPT ![c] = "drop"]
            /\ UNCHANGED panicked
  /\ UNCHANGED <<setupVars, err, lockOrder, auxVars, hpc, dispatched, wg, wpc, item, published, queueVars,
                 chanVars, count, recvd, results>>

\* Pop: q.data = q.data[1:].  Slicing an empty slice from 1 panics.
PopDrop(c) ==
  /\ ~panicked
  /\ ypc[c] = "drop"
  /\ IF Len(data) = 0
       THEN /\ panicked' = TRUE
            /\ UNCHANGED <<ypc, data, removedSince, popOrder>>
       ELSE /\ data' = DropHead(data)
            /\ ypc' = [ypc EXCEPT ![c] = "pop_notify"]
            /\ removedSince' = removedSince + 1
            /\ popOrder' = Append(popOrder, tmp[c].tag)
            /\ UNCHANGED panicked
  /\ UNCHANGED <<setupVars, err, lockOrder, snaps, batchVars, lockVars, logVars, hpc, dispatched, wg, wpc, item, published, notify, mutex,
                 chanVars, count, tmp, recvd, results>>

\* Pop: q.Notify()
PopNotify(c) ==
  /\ ~panicked
  /\ ypc[c] = "pop_notify"
  /\ notify' = Toggle(notify)
  /\ removedSince' = 0
  /\ ypc' = [ypc EXCEPT ![c] = "pop_unlock"]
  /\ UNCHANGED <<setupVars, err, lockOrder, snaps, batchVars, lockVars, logVars, popOrder, hpc, dispatched, wg, wpc, item, published, data, mutex,
                 chanVars, count, tmp, recvd, results, panicked>>

\* Pop: q.mutex.Unlock(); return tmp
PopUnlock(c) ==
  /\ ~panicked
  /\ ypc[c] = "pop_unlock"
  /\ mutex' = Free
  /\ ypc' = [ypc EXCEPT ![c] = "send"]
  /\ UNCHANGED <<setupVars, err, lockOrder, auxVars, hpc, dispatched, wg, wpc, item, published, data, notify,
                 chanVars, count, tmp, recvd, results, panicked>>

\* ch <- q.Pop(): the value sent is the one Pop returned.
YieldedDummy(t) == NoItem
Yielded(t) == t

\* GetAllYielding goroutine: ch <- (the value Pop returned)
YieldSend(c) ==
  /\ ~panicked
  /\ ypc[c] = "send"
  /\ IF closed
       THEN /\ panicked' = TRUE
            /\ UNCHANGED <<ypc, channel>>
       ELSE /\ Len(channel) < ChanCap
            /\ channel' = Append(channel, Yielded(tmp[c]))
            /\ ypc' = [ypc EXCEPT ![c] = "done"]
            /\ UNCHANGED panicked
  /\ UNCHANGED <<setupVars, err, lockOrder, auxVars, hpc, dispatched, wg, wpc, item, published, queueVars,
                 closed, count, tmp, recvd, results>>

\* GetAllYielding: for count > 0 { go func() { ch <- q.Pop() }(); count-- }
YieldSpawn ==
  /\ ~panicked
  /\ count > 0
  /\ ypc' = [ypc EXCEPT ![n - count + 1] = "check"]
  /\ count' = count - 1
  /\ UNCHANGED <<setupVars, err, lockOrder, auxVars, hpc, dispatched, wg, wpc, item, published, queueVars,
                 chanVars, tmp, recvd, results, panicked>>

----------------------------------------------------------------------------
(* A further reader of the queue *)

\* Appends and removals completed on the queue so far.
Mutations ==
  Cardinality({w \in Tasks : published[w] > 0})
    + Cardinality({c \in Tasks : ypc[c] \in {"pop_notify", "pop_unlock", "send", "done"}})

\* GetAll called by one more goroutine of the batch, at any time:
\* q.mutex.RLock(); results = append(results, q.data...); RUnlock; return results.
\* snaps records what each call returned and how many mutations preceded it.
Observe ==
  /\ ~panicked
  /\ Len(snaps) < MaxSnaps
  /\ CanLock(mutex)
  /\ snaps' = Append(snaps, [seq |-> Snapshot(data), epoch |-> Mutations])
  /\ UNCHANGED <<setupVars, err, lockOrder, hpc, dispatched, wg, wpc, item, published,
                 queueVars, chanVars, yieldVars, recvd, results, panicked, batchVars, lockVars, logVars,
                 removedSince, popOrder>>

----------------------------------------------------------------------------
(* Concurrent requests to getWeatherStressTest0.  Each request runs the
   handler on its own goroutine; Push and GetAll hold q.mutex for their whole
   body and are one step each here. *)

\* sq := &SharedQueue{} allocates a new object: its address is a fresh one.
NewQueueShared(h) == 1
NewQueue(h) == Len(h) + 1

\* The zero-valued SharedQueue.
EmptyQueue == [data |-> <<>>, notify |-> FALSE]

\* Everything but the state of the concurrent requests.
batchOther ==
  <<setupVars, err, lockOrder, snaps, removedSince, popOrder, lockVars, logVars, hpc, dispatched, wg, wpc, item, published,
    queueVars, chanVars, yieldVars, recvd, results, panicked>>

\* sq := &SharedQueue{}
BatchAlloc(b) ==
  /\ bpc[b] = "new"
  /\ heap' = Append(heap, EmptyQueue)
  /\ sqOf' = [sqOf EXCEPT ![b] = NewQueue(heap)]
  /\ bpc' = [bpc EXCEPT ![b] = "dispatch"]
  /\ UNCHANGED <<bwpc, bres, batchOther>>

\* for _, city := range cities { wg.Add(1); go func(city string) {...}(city) }
BatchDispatch(b) ==
  /\ bpc[b] = "dispatch"
  /\ bwpc' = [bwpc EXCEPT ![b] = [w \in 1..BatchTasks |-> "push"]]
  /\ bpc' = [bpc EXCEPT ![b] = "wait"]
  /\ UNCHANGED <<heap, sqOf, bres, batchOther>>

\* Worker w of request b: stressTestHelper0(city, sq) ends in sq.Push(weatherData),
\* on the queue its handler passed to it.
BatchPush(b, w) ==
  /\ bwpc[b][w] = "push"
  /\ heap' = [heap EXCEPT ![sqOf[b]] =
                [data |-> AppendData(@.data, [batch |-> b, tag |-> w]),
                 notify |-> Toggle(@.notify)]]
  /\ bwpc' = [bwpc EXCEPT ![b][w] = "done"]
  /\ UNCHANGED <<sqOf, bpc, bres, batchOther>>

\* wg.Wait(); sq.GetAll()
BatchGather(b) ==
  /\ bpc[b] = "wait"
  /\ \A w \in 1..BatchTasks : bwpc[b][w] = "done"
  /\ bres' = [bres EXCEPT ![b] = Snapshot(heap[sqOf[b]].data)]
  /\ bpc' = [bpc EXCEPT ![b] = "done"]
  /\ UNCHANGED <<heap, sqOf, bwpc, batchOther>>

NextBatches ==
  \E b \in Batches :
    \/ BatchAlloc(b) \/ BatchDispatch(b) \/ BatchGather(b)
    \/ \E w \in 1..BatchTasks : BatchPush(b, w)

\* Concurrent requests alone: the single-batch state stays as constructed.
InitBatches == Init /\ strategy = "A" /\ n = 0

SpecBatches == InitBatches /\ [][NextBatches]_vars

----------------------------------------------------------------------------
(* Lock level.  The goroutines of one batch call the methods of its
   SharedQueue; every Lock, RLock, Unlock and RUnlock of q.mutex and of
   q.NotifyMutex is a step of its own.  A position is <<statement, step>>:
   the statement of the method the goroutine called, and the step of the
   GetLength, Notify or CheckNotify call that statement makes. *)

\* Everything but the lock-level state and panicked.
lockOther ==
  <<setupVars, err, lockOrder, snaps, removedSince, popOrder, batchVars, logVars, hpc, dispatched, wg, wpc, item,
    published, queueVars, chanVars, yieldVars, recvd, results>>

\* The methods the handlers and helpers call on a queue made as
\* &SharedQueue{} (strategies A and C) and as &SharedQueue{notify: true} (D).
MethodsOf(s) ==
  IF s = "D" THEN {"FastPush", "Push", "Pop"}
  ELSE {"Push", "GetAll", "GetAllBlocking"}

\* First statement of each method.
EntryOf(op) ==
  CASE op = "FastPush" -> <<"try_len", "rlock">>
    [] op = "Push" -> <<"push_lock", "">>
    [] op = "Pop" -> <<"check", "rlock">>
    [] op = "GetAll" -> <<"getall", "rlock">>
    [] op = "GetAllBlocking" -> <<"poll", "rlock">>

\* A goroutine of the batch calls a method; GetAllBlocking takes its count.
LkCall(g) ==
  /\ ~panicked
  /\ gpc[g] = <<"idle", "">>
  /\ \E op \in MethodsOf(strategy), cnt \in 1..(MaxLockers - 1) :
       /\ gop' = [gop EXCEPT ![g] = op]
       /\ garg' = [garg EXCEPT ![g] = IF op = "GetAllBlocking" THEN cnt ELSE 0]
       /\ gpc' = [gpc EXCEPT ![g] = EntryOf(op)]
  /\ UNCHANGED <<glen, gflag, seqW, seqR, ntfW, ntfR, qdata, qnotify, panicked, lockOther>>

\* What follows the RUnlock of a shared section of q.mutex: the branch of
\* TryPush, the loops of Check and GetAllBlocking, the return of GetAll.
AfterRUnlock(at, length, cnt) ==
  CASE at = "try_len" -> IF length > 0 THEN <<"try_fail", "nlock">> ELSE <<"try_lock", "">>
    [] at = "check" -> IF length < 1 THEN <<"check", "rlock">> ELSE <<"lock", "">>
    [] at = "poll" -> IF ThresholdReached(length, cnt) THEN <<"snap", "rlock">> ELSE <<"poll", "rlock">>
    [] at = "getall" -> <<"returned", "">>
    [] at = "snap" -> <<"returned", "">>

\* q.mutex.RLock(); tmp := len(q.data)  (GetLength), or the read of q.data
\* in GetAll and GetAllBlocking
LkRLock(g) ==
  /\ ~panicked
  /\ gpc[g][2] = "rlock"
  /\ seqW = NoOwner
  /\ seqR' = seqR \cup {g}
  /\ glen' = [glen EXCEPT ![g] = GetLength(qdata)]
  /\ gpc' = [gpc EXCEPT ![g] = <<gpc[g][1], "runlock">>]
  /\ UNCHANGED <<gop, garg, gflag, seqW, ntfW, ntfR, qdata, qnotify, panicked, lockOther>>

\* q.mutex.RUnlock(); return
LkRUnlock(g) ==
  /\ ~panicked
  /\ gpc[g][2] = "runlock"
  /\ seqR' = seqR \ {g}
  /\ gpc' = [gpc EXCEPT ![g] = AfterRUnlock(gpc[g][1], glen[g], garg[g])]
  /\ UNCHANGED <<gop, garg, glen, gflag, seqW, ntfW, ntfR, qdata, qnotify, panicked, lockOther>>

\* What follows q.mutex.Lock() in TryPush, Push and Pop.
AfterSeqLock(at) ==
  CASE at = "try_lock" -> <<"try_append", "">>
    [] at = "push_lock" -> <<"push_append", "">>
    [] at = "lock" -> <<"checknotify", "nrlock">>

\* q.mutex.Lock()
LkLock(g) ==
  /\ ~panicked
  /\ gpc[g][1] \in {"try_lock", "push_lock", "lock"}
  /\ seqW = NoOwner /\ seqR = {}
  /\ seqW' = g
  /\ gpc' = [gpc EXCEPT ![g] = AfterSeqLock(gpc[g][1])]
  /\ UNCHANGED <<gop, garg, glen, gflag, seqR, ntfW, ntfR, qdata, qnotify, panicked, lockOther>>

\* q.data = append(q.data, data), followed by q.Notify()
LkAppend(g) ==
  /\ ~panicked
  /\ gpc[g][1] \in {"try_append", "push_append"}
  /\ qdata' = AppendData(qdata, g)
  /\ gpc' = [gpc EXCEPT ![g] = IF gpc[g][1] = "try_append"
                                  THEN <<"try_notify", "nlock">>
                                  ELSE <<"push_notify", "nlock">>]
  /\ UNCHANGED <<gop, garg, glen, gflag, seqW, seqR, ntfW, ntfR, qnotify, panicked, lockOther>>

\* Notify: q.NotifyMutex.Lock(); q.notify = !q.notify
LkNLock(g) ==
  /\ ~panicked
  /\ gpc[g][2] = "nlock"
  /\ ntfW = NoOwner /\ ntfR = {}
  /\ ntfW' = g
  /\ qnotify' = Toggle(qnotify)
  /\ gpc' = [gpc EXCEPT ![g] = <<gpc[g][1], "nunlock">>]
  /\ UNCHANGED <<gop, garg, glen, gflag, seqW, seqR, ntfR, qdata, panicked, lockOther>>

\* What follows the return of Notify: TryPush returns false and FastPush
\* calls it again, or the Unlock of q.mutex.
AfterNotify(at) ==
  CASE at = "try_fail" -> <<"try_len", "rlock">>
    [] at = "try_notify" -> <<"try_unlock", "">>
    [] at = "push_notify" -> <<"push_unlock", "">>
    [] at = "pop_notify" -> <<"pop_unlock", "">>

\* Notify: q.NotifyMutex.Unlock() leaves the lock without owner.
NotifyUnlockKeep(owner) == owner
NotifyUnlock(owner) == NoOwner

\* Notify: q.NotifyMutex.Unlock(); return
LkNUnlock(g) ==
  /\ ~panicked
  /\ gpc[g][2] = "nunlock"
  /\ ntfW' = NotifyUnlock(ntfW)
  /\ gpc' = [gpc EXCEPT ![g] = AfterNotify(gpc[g][1])]
  /\ UNCHANGED <<gop, garg, glen, gflag, seqW, seqR, ntfR, qdata, qnotify, panicked, lockOther>>

\* CheckNotify: q.NotifyMutex.RLock(); tmp := q.notify
LkNRLock(g) ==
  /\ ~panicked
  /\ gpc[g][2] = "nrlock"
  /\ ntfW = NoOwner
  /\ ntfR' = ntfR \cup {g}
  /\ gflag' = [gflag EXCEPT ![g] = CheckNotify(qnotify)]
  /\ gpc' = [gpc EXCEPT ![g] = <<gpc[g][1], "nrunlock">>]
  /\ UNCHANGED <<gop, garg, glen, seqW, seqR, ntfW, qdata, qnotify, panicked, lockOther>>

\* CheckNotify: q.NotifyMutex.RUnlock(); return !tmp, then the test of the
\* loop  for q.CheckNotify()  of Pop
LkNRUnlock(g) ==
  /\ ~panicked
  /\ gpc[g][2] = "nrunlock"
  /\ ntfR' = ntfR \ {g}
  /\ gpc' = [gpc EXCEPT ![g] = IF gflag[g] THEN <<"retry", "">> ELSE <<"head", "">>]
  /\ UNCHANGED <<gop, garg, glen, gflag, seqW, seqR, ntfW, qdata, qnotify, panicked, lockOther>>

\* Pop: tmp := q.data[0]; q.data = q.data[1:], followed by q.Notify().
\* Indexing an empty slice panics, in a goroutine without recover.
LkHead(g) ==
  /\ ~panicked
  /\ gpc[g][1] = "head"
  /\ IF Len(qdata) = 0
       THEN /\ panicked' = TRUE
            /\ gpc' = [gpc EXCEPT ![g] = <<"crashed", "">>]
            /\ UNCHANGED qdata
       ELSE /\ qdata' = DropHead(qdata)
            /\ gpc' = [gpc EXCEPT ![g] = <<"pop_notify", "nlock">>]
            /\ UNCHANGED panicked
  /\ UNCHANGED <<gop, garg, glen, gflag, seqW, seqR, ntfW, ntfR, qnotify, lockOther>>

\* What follows q.mutex.Unlock(): the return of TryPush, Push and Pop, or
\* q.Check() in the loop body of Pop.
AfterSeqUnlock(at) ==
  CASE at = "retry" -> <<"check", "rlock">>
    [] at = "try_unlock" -> <<"returned", "">>
    [] at = "push_unlock" -> <<"returned", "">>
    [] at = "pop_unlock" -> <<"returned", "">>

\* q.mutex.Unlock() leaves the lock without owner.
SeqUnlockKeep(owner) == owner
SeqUnlock(owner) == NoOwner

\* q.mutex.Unlock()
LkUnlock(g) ==
  /\ ~panicked
  /\ gpc[g][1] \in {"retry", "try_unlock", "push_unlock", "pop_unlock"}
  /\ seqW' = SeqUnlock(seqW)
  /\ gpc' = [gpc EXCEPT ![g] = AfterSeqUnlock(gpc[g][1])]
  /\ UNCHANGED <<gop, garg, glen, gflag, seqR, ntfW, ntfR, qdata, qnotify, panicked, lockOther>>

NextLocks ==
  \E g \in Lockers :
    \/ LkCall(g)
    \/ LkRLock(g) \/ LkRUnlock(g) \/ LkLock(g) \/ LkAppend(g) \/ LkUnlock(g)
    \/ LkNLock(g) \/ LkNUnlock(g) \/ LkNRLock(g) \/ LkNRUnlock(g) \/ LkHead(g)

\* The lock-level machine alone, on the queue of a strategy A/C or D batch.
InitLocks == Init /\ n = 0 /\ strategy \in {"A", "D"} /\ pushMode = "Push"

SpecLocks == InitLocks /\ [][NextLocks]_vars

----------------------------------------------------------------------------
(* Handlers: getWeatherStressTest0..3 *)

\* Where the handler gathers once every worker is started.
GatherEntryBarrier ==
  CASE strategy = "A" -> "wait"
    [] strategy = "B" -> "wait"
    [] strategy = "C" -> "poll"
    [] strategy = "D" -> "recv"
GatherEntry ==
  CASE strategy = "A" -> "wait"
    [] strategy = "B" -> "recv"
    [] strategy = "C" -> "poll"
    [] strategy = "D" -> "recv"

\* for _, city := range cities { (wg.Add(1)) go func(city) {...}(city) }
Dispatch ==
  /\ ~panicked
  /\ hpc = "dispatch"
  /\ dispatched < n
  /\ dispatched' = dispatched + 1
  /\ wpc' = [wpc EXCEPT ![dispatched + 1] = "fetch"]
  /\ wg' = IF strategy = "A" THEN wg + 1 ELSE wg
  /\ UNCHANGED <<setupVars, err, lockOrder, auxVars, hpc, item, published, queueVars, chanVars, yieldVars,
                 recvd, results, panicked>>

\* End of the dispatch loop.  Strategy D then runs go sq.GetAllYielding(len(cities), channel).
DispatchEnd ==
  /\ ~panicked
  /\ hpc = "dispatch"
  /\ dispatched = n
  /\ hpc' = GatherEntry
  /\ count' = IF strategy = "D" THEN n ELSE count
  /\ UNCHANGED <<setupVars, err, lockOrder, auxVars, dispatched, wg, wpc, item, published, queueVars, chanVars,
                 ypc, tmp, recvd, results, panicked>>

\* Strategy A: wg.Wait()
Wait ==
  /\ ~panicked
  /\ hpc = "wait"
  /\ WaitReleased(wg)
  /\ hpc' = "getall"
  /\ UNCHANGED <<setupVars, err, lockOrder, auxVars, dispatched, wg, wpc, item, published, queueVars, chanVars,
                 yieldVars, recvd, results, panicked>>

\* Strategy A: sq.GetAll()
GetAll ==
  /\ ~panicked
  /\ hpc = "getall"
  /\ CanLock(mutex)
  /\ results' = Snapshot(data)
  /\ hpc' = "respond"
  /\ UNCHANGED <<setupVars, err, lockOrder, auxVars, dispatched, wg, wpc, item, published, queueVars, chanVars,
                 yieldVars, recvd, panicked>>

\* Strategy C, GetAllBlocking: for q.GetLength() < count { sleep }
Poll ==
  /\ ~panicked
  /\ hpc = "poll"
  /\ CanLock(mutex)
  /\ ThresholdReached(GetLength(data), n)
  /\ hpc' = "snapshot"
  /\ UNCHANGED <<setupVars, err, lockOrder, auxVars, dispatched, wg, wpc, item, published, queueVars, chanVars,
                 yieldVars, recvd, results, panicked>>

\* Strategy C, GetAllBlocking: q.mutex.RLock(); results = append(results, q.data...)
SnapshotAll ==
  /\ ~panicked
  /\ hpc = "snapshot"
  /\ CanLock(mutex)
  /\ results' = Snapshot(data)
  /\ hpc' = "respond"
  /\ UNCHANGED <<setupVars, err, lockOrder, auxVars, dispatched, wg, wpc, item, published, queueVars, chanVars,
                 yieldVars, recvd, panicked>>

\* A read of q.data made without q.mutex while a writer is inside its
\* critical section races with the writer's assignment to q.data: it yields
\* the sequence as it is, or whatever a torn read of the slice yields.
\* Torn stands for every such value: no queue content holds NoItem.
Torn == <<NoItem>>
ReadUnlocked(q, m) == IF m = Free THEN {Snapshot(q)} ELSE {Snapshot(q), Torn}

\* Strategies B and D: for i := 0; i < len(cities); i++ { data := <-channel;
\* stressResponse = append(stressResponse, gin.H{...}) }.  results collects the
\* values received; building the entry of a received value panics when it reads
\* Weather[0] of a record that has none, and the loop index is not advanced.
Recv ==
  /\ ~panicked
  /\ hpc = "recv"
  /\ RecvMore(recvd, n)
  /\ Len(channel) > 0
  /\ results' = Append(results, Head(channel))
  /\ channel' = Tail(channel)
  /\ IF AssemblyPanics(strategy, <<Head(channel)>>)
       THEN hpc' = "unwind" /\ recvd' = recvd
       ELSE hpc' = hpc /\ recvd' = recvd + 1
  /\ UNCHANGED <<setupVars, err, lockOrder, auxVars, dispatched, wg, wpc, item, published, queueVars,
                 closed, yieldVars, panicked>>

\* Strategies B and D: the receive loop ends after len(cities) receives
RecvEnd ==
  /\ ~panicked
  /\ hpc = "recv"
  /\ ~RecvMore(recvd, n)
  /\ hpc' = "respond"
  /\ UNCHANGED <<setupVars, err, lockOrder, auxVars, dispatched, wg, wpc, item, published, queueVars, chanVars,
                 yieldVars, recvd, results, panicked>>

\* Strategies A and C: for _, data := range results { stressResponse = append(...) },
\* which panics on a record without a weather entry when the description is read.
\* Then ctx.JSON(http.StatusOK, stressResponse); B and D run the deferred close(channel).
Respond ==
  /\ ~panicked
  /\ hpc = "respond"
  /\ hpc' = IF strategy \in {"A", "C"} /\ AssemblyPanics(strategy, results)
              THEN "unwind"
              ELSE IF strategy \in {"B", "D"} THEN "close" ELSE "done"
  /\ UNCHANGED <<setupVars, err, lockOrder, auxVars, dispatched, wg, wpc, item, published, queueVars, chanVars,
                 yieldVars, recvd, results, panicked>>

\* The panic of the assembly leaves the handler: the deferred close(channel) of
\* getWeatherStressTest1 runs, and the panic reaches the caller.  The Recovery
\* middleware of gin.Default() answers 500 and the process goes on; a direct
\* caller without recover (the tests) goes down with it.
Unwind ==
  /\ ~panicked
  /\ hpc = "unwind"
  /\ closed' = (closed \/ strategy = "B")
  /\ hpc' = "aborted"
  /\ panicked' \in BOOLEAN
  /\ UNCHANGED <<setupVars, err, lockOrder, auxVars, dispatched, wg, wpc, item, published, queueVars, channel,
                 yieldVars, recvd, results>>

\* defer close(channel)
Close ==
  /\ ~panicked
  /\ hpc = "close"
  /\ closed' = TRUE
  /\ hpc' = "done"
  /\ UNCHANGED <<setupVars, err, lockOrder, auxVars, dispatched, wg, wpc, item, published, queueVars, channel,
                 yieldVars, recvd, results, panicked>>

----------------------------------------------------------------------------------------------------------------------------------------
(* Specifications *)

QueueWorker(w) ==
  \/ Fetch(w)
  \/ PushLock(w) \/ PushAppend(w) \/ PushNotify(w) \/ PushUnlock(w)

WorkerA(w) == QueueWorker(w) \/ WgDone(w)

WorkerB(w) == Fetch(w) \/ Send(w)

Producer(w) ==
  \/ QueueWorker(w)
  \/ TryLen(w) \/ TryFail(w) \/ TryLock(w) \/ TryAppend(w) \/ TryNotify(w) \/ TryUnlock(w)

Consumer(c) ==
  \/ PopCheck(c) \/ PopLock(c) \/ PopCheckNotify(c) \/ PopRetry(c)
  \/ PopHead(c) \/ PopDrop(c) \/ PopNotify(c) \/ PopUnlock(c) \/ YieldSend(c)

HandlerA == Dispatch \/ DispatchEnd \/ Wait \/ GetAll \/ Respond \/ Unwind
HandlerB == Dispatch \/ DispatchEnd \/ Recv \/ RecvEnd \/ Respond \/ Close \/ Unwind
HandlerC == Dispatch \/ DispatchEnd \/ Poll \/ SnapshotAll \/ Respond
HandlerD == Dispatch \/ DispatchEnd \/ Recv \/ RecvEnd \/ Respond \/ Close

\* The handler goroutine, whichever strategy it runs.
Handler == HandlerA \/ HandlerB \/ HandlerC \/ HandlerD

NextA == HandlerA \/ \E w \in Tasks : WorkerA(w)
NextB == HandlerB \/ \E w \in Tasks : WorkerB(w)
NextC == HandlerC \/ \E w \in Tasks : QueueWorker(w)
NextD == HandlerD \/ YieldSpawn \/ (\E w \in Tasks : Producer(w)) \/ (\E c \in Tasks : Consumer(c))

Next == NextA \/ NextB \/ NextC \/ NextD

InitA == Init /\ strategy = "A"
InitB == Init /\ strategy = "B"
InitC == Init /\ strategy = "C"
InitD == Init /\ strategy = "D"

Spec == Init /\ [][Next]_vars
SpecA == InitA /\ [][NextA]_vars
SpecB == InitB /\ [][NextB]_vars
SpecC == InitC /\ [][NextC]_vars
SpecD == InitD /\ [][NextD]_vars

\* Fair scheduling: every goroutine that can run, or can run again and again,
\* eventually runs (the Go scheduler preempts, and a blocked Lock or channel
\* operation is served once it has waited).
FairSpecB ==
  SpecB /\ SF_vars(HandlerB) /\ \A w \in Tasks : SF_vars(WorkerB(w))
FairSpecC ==
  SpecC /\ SF_vars(HandlerC) /\ \A w \in Tasks : SF_vars(QueueWorker(w))
FairSpecD ==
  /\ SpecD
  /\ SF_vars(HandlerD)
  /\ SF_vars(YieldSpawn)
  /\ \A w \in Tasks : SF_vars(Producer(w))
  /\ \A c \in Tasks : SF_vars(Consumer(c))

\* Strategy D with the prints of sq.data of its receive loop body:
\*   for i ... { log.Printf("... PRE: %v", i, sq.data); data := <-channel; ...;
\*               log.Printf("... POST: %v", i, sq.data) }
\* Iteration i starts with 2i prints made; the receive follows the PRE print.
LogQueue ==
  /\ ~panicked
  /\ strategy = "D"
  /\ hpc = "recv"
  /\ \/ logs = 2 * recvd /\ RecvMore(recvd, n)
     \/ logs + 1 = 2 * recvd
  /\ logs' = logs + 1
  /\ \E seen \in ReadUnlocked(data, mutex) :
       qlog' = [seen |-> seen, during |-> mutex]
  /\ UNCHANGED <<setupVars, err, lockOrder, snaps, batchVars, removedSince, popOrder, lockVars, hpc,
                 dispatched, wg, wpc, item, published, queueVars, chanVars, yieldVars, recvd,
                 results, panicked>>

HandlerDLog ==
  \/ Dispatch \/ DispatchEnd \/ LogQueue
  \/ (logs = 2 * recvd + 1 /\ Recv)
  \/ (logs = 2 * recvd /\ RecvEnd)
  \/ Respond \/ Close

NextDLog ==
  HandlerDLog \/ YieldSpawn \/ (\E w \in Tasks : Producer(w)) \/ (\E c \in Tasks : Consumer(c))

SpecDLog == InitD /\ [][NextDLog]_vars

\* Strategies A and C, the two collectors over an append-only queue.
NextAC == NextA \/ NextC

SpecAC == (InitA \/ InitC) /\ [][NextAC]_vars

FairSpecAC ==
  /\ SpecAC
  /\ SF_vars(HandlerA \/ HandlerC)
  /\ \A w \in Tasks : SF_vars(WorkerA(w))

\* Strategies A and C with further GetAll calls on the batch's queue.
NextObs == NextAC \/ Observe

InitObs == (InitA \/ InitC) /\ n <= MaxTasksObs

SpecObs == InitObs /\ [][NextObs]_vars

\* Strategies B and D with a worker that may panic during its fetch.
NextFault == NextB \/ NextD \/ \E w \in Tasks : FetchPanic(w)

FaultSpec == (InitB \/ InitD) /\ [][NextFault]_vars

FairFaultSpec ==
  /\ FaultSpec
  /\ SF_vars(HandlerB \/ HandlerD)
  /\ SF_vars(YieldSpawn)
  /\ \A w \in Tasks : SF_vars(WorkerB(w) \/ Producer(w))
  /\ \A c \in Tasks : SF_vars(Consumer(c))

----------------------------------------------------------------------------
(* Properties *)

\* The tags of the items of a sequence.
TagsOf(q) == {q[i].tag : i \in 1..Len(q)}

\* The Pop call of consumer c has returned.
PopReturned(c) == ypc[c] \in {"send", "done"}

\* The handler has completed its gather step.
Gathered ==
  \/ hpc \in {"respond", "close", "done"}
  \/ strategy = "A" /\ hpc \in {"unwind", "aborted"}

\* The panic of a response assembly has ended the handler.
Aborted == hpc \in {"unwind", "aborted"}

\* q holds the item of each of the n workers once and nothing else.
OnePerWorker(q) ==
  /\ Len(q) = n
  /\ \A w \in 1..n : \E i \in 1..Len(q) : q[i] = item[w]

\* C1: strategy D with FastPush producers, under fair scheduling: every Pop
\* eventually returns and the handler eventually completes its n receives.
\* A run that ends in the panic of C2 is not counted against the claim here,
\* so that what refutes it is a livelock of the retry loop alone.
C1_PopsComplete ==
  (pushMode = "FastPush") =>
    <>((recvd = n /\ \A c \in 1..n : PopReturned(c)) \/ panicked)

\* C2: a consumer that executes tmp := q.data[0] finds at least one element.
C2_HeadRemovalNonEmpty ==
  \A c \in Tasks : ypc[c] = "head" => mutex = Y(c) /\ Len(data) >= 1

\* C3: no two Pop calls return the item of the same append.
C3_AtMostOnce ==
  \A c1, c2 \in Tasks :
    (c1 # c2 /\ PopReturned(c1) /\ PopReturned(c2)) => tmp[c1].tag # tmp[c2].tag

C3_Witness ==
  /\ strategy = "D"
  /\ n = 2
  /\ PopReturned(1) /\ PopReturned(2)
  /\ tmp[1].val = Sentinel /\ tmp[2].val = Sentinel

\* C4: in every strategy a worker never publishes twice, and a worker that
\* has finished has published once, whether its fetch failed or not.
C4_SinglePublish ==
  \A w \in Tasks :
    /\ published[w] <= 1
    /\ wpc[w] \in {"wgdone", "done"} => published[w] = 1

C4_Witness ==
  /\ strategy = "D"
  /\ pushMode = "FastPush"
  /\ n >= 2
  /\ \A w \in 1..n : wpc[w] = "done"
  /\ \E w \in 1..n : item[w].val = Sentinel
  /\ \E w \in 1..n : item[w].val # Sentinel

\* C5: strategy A: once wg.Wait has returned the queue holds exactly n
\* entries, one per worker, and so does the snapshot GetAll returns.
C5_BarrierSnapshot ==
  /\ hpc = "getall" => OnePerWorker(data)
  /\ Gathered => OnePerWorker(results)

C5_Witness ==
  /\ strategy = "A"
  /\ hpc = "respond"
  /\ n >= 2
  /\ \E i \in 1..Len(results) : results[i].val = Sentinel
  /\ \E i \in 1..Len(results) : results[i].val # Sentinel

\* C6: strategy B: in a run where each of the n workers sends once, the
\* handler's n receives all complete; what it has then received is the item of
\* each worker exactly once, and it never receives a worker's item twice.
C6_FanIn ==
  /\ (<>(\A w \in 1..n : published[w] = 1)) => <>(Len(results) = n)
  /\ [](Len(results) = n => OnePerWorker(results))
  /\ [](Cardinality(TagsOf(results)) = Len(results))

\* C7: strategy C: GetAllBlocking(n) returns only once the length has reached
\* n, its result has no fewer than n elements, and with n workers pushing
\* once each it eventually returns exactly their n items.
C7_ThresholdDrain ==
  /\ [](hpc = "snapshot" => Len(data) >= n)
  /\ [](Gathered => Len(results) >= n)
  /\ <>(hpc = "done" /\ OnePerWorker(results))

C7_Witness ==
  /\ strategy = "C"
  /\ hpc = "done"
  /\ n >= 2
  /\ Len(results) = n

\* C8: in every strategy, when the handler has gathered, its results are the
\* outcomes of the n fetches: the item of each worker once, a sentinel for a
\* failed fetch and the location's record for a successful one; and the batch
\* is not cut short, that is the handler is not ended with fewer than n results.
C8_Conservation ==
  /\ Gathered =>
       /\ OnePerWorker(results)
       /\ \A i \in 1..Len(results) :
            results[i].val \in {Sentinel, results[i].tag}
  /\ Aborted => Len(results) = n

\* C9: with no task the handler is never blocked before it is done, and it
\* gathers nothing.
C9_EmptyBatch ==
  n = 0 =>
    /\ results = <<>>
    /\ hpc # "done" => ENABLED Handler

C9_Witness ==
  /\ n = 0
  /\ hpc = "done"
  /\ strategy = "C"

\* C10: the flag changes only in the Notify call that follows an append or a
\* removal, made by the goroutine that holds the write lock.
C10_ToggleUnderLock ==
  [][notify' # notify =>
       \/ \E w \in Tasks : /\ mutex = W(w)
                           /\ wpc[w] \in {"push_notify", "try_notify"}
                           /\ wpc'[w] # wpc[w]
       \/ \E c \in Tasks : /\ mutex = Y(c)
                           /\ ypc[c] = "pop_notify"
                           /\ ypc'[c] # ypc[c]]_vars

\* C11: strategy D: when a producer is about to release the write lock after
\* its append, the flag reads "available": CheckNotify() returns false, so a
\* consumer that tests it is not sent back to retry.
C11_AppendSignals ==
  strategy = "D" =>
    \A w \in Tasks :
      wpc[w] \in {"push_unlock", "try_unlock"} => ~CheckNotify(notify)

\* C13: in every strategy and for every mix of fetch outcomes the response
\* assembly does not fail: the handler is never ended by a panic.
C13_AssemblyCompletes == ~Aborted

\* C18: a worker that has not yet returned from sendWeatherRequest does not
\* hold the write lock of the queue.
C18_NoLockAcrossFetch ==
  \A w \in Tasks : wpc[w] \in {"idle", "fetch"} => mutex # W(w)

C18_Witness ==
  \E w1, w2 \in Tasks :
    /\ wpc[w1] = "fetch"
    /\ mutex = W(w2)
    /\ wpc[w2] \in {"push_append", "try_append"}

\* C12: strategies B and D: when a started worker panics between the start of
\* its fetch and its publish, a result is still published for it and the
\* handler still completes its n receives.
C12_GuaranteedPublish ==
  \A w \in Tasks :
    (wpc[w] = "crashed") ~> (published[w] = 1 /\ Len(results) = n)

\* C20: a worker whose sendWeatherRequest has returned holds the zero record
\* exactly when the error is non-nil, whichever path failed, and the record of
\* its location when the error is nil; with either outcome it goes on to
\* publish, and has published once when it ends.
C20_FetchFailureValue ==
  \A w \in Tasks :
    /\ wpc[w] \notin {"idle", "fetch", "crashed"} =>
         /\ err[w] <=> item[w].val = Sentinel
         /\ ~err[w] => item[w].val = w
    /\ wpc[w] \in {"wgdone", "done"} => published[w] = 1

C20_Witness ==
  /\ strategy = "C"
  /\ n >= 2
  /\ \A w \in 1..n : wpc[w] = "done" /\ published[w] = 1
  /\ \E w \in 1..n : err[w] /\ item[w].val = Sentinel
  /\ \E w \in 1..n : ~err[w] /\ item[w].val = w

\* The tags of a sequence of items, in order.
TagSeq(q) == [i \in 1..Len(q) |-> q[i].tag]

\* What a collector gathers from workers whose appends took the lock in this order.
GatherOf(order) == [i \in 1..Len(order) |-> item[order[i]]]

\* C16: strategies A and C: the gathered sequence lists the workers' results
\* in the order in which their appends took the write lock, whatever the
\* position of a task in the city list.
C16_AppendOrder ==
  (strategy \in {"A", "C"} /\ Gathered) => TagSeq(results) = lockOrder

C16_Witness ==
  /\ strategy = "C"
  /\ hpc = "done"
  /\ n >= 3
  /\ TagSeq(results) = <<3, 1, 2>>

\* C17: strategies A and C gather the same sequence from the same workers and
\* the same order of appends: in both, the gathered sequence is the workers'
\* items in append order, all n of them, and under fair scheduling both
\* collectors complete their gather step.
C17_PollingEqualsBarrier ==
  /\ [](Gathered => (Len(lockOrder) = n /\ results = GatherOf(lockOrder)))
  /\ <>Gathered

C17_Witness ==
  /\ strategy = "A"
  /\ Gathered
  /\ n >= 2
  /\ results = GatherOf(<<2, 1>>)
  /\ results[1].val = Sentinel

\* s is a prefix of t.
IsPrefix(s, t) == Len(s) <= Len(t) /\ \A i \in 1..Len(s) : s[i] = t[i]

\* C14: a GetAll call leaves q.data and the flag as they are; two calls with
\* no append or removal between them return equal sequences; and a call made
\* once the barrier of strategy A or the threshold of strategy C is passed
\* returns what the handler gathers, however often it is repeated.
C14_SnapshotReadOnly ==
  /\ [][snaps' # snaps =>
         /\ data' = data /\ notify' = notify
         /\ snaps'[Len(snaps')].seq = data
         /\ Gathered => snaps'[Len(snaps')].seq = results]_vars
  /\ [](\A i, j \in 1..Len(snaps) :
          snaps[i].epoch = snaps[j].epoch => snaps[i].seq = snaps[j].seq)

C14_Witness ==
  /\ strategy = "A"
  /\ Gathered
  /\ n >= 2
  /\ Len(snaps) = 2
  /\ snaps[1].epoch = n /\ snaps[2].epoch = n
  /\ snaps[1].seq = results /\ snaps[2].seq = results

\* C15: on the append-only queue of strategies A and C an earlier snapshot is
\* a prefix of every later one, and the length of q.data never decreases.
C15_PrefixGrowth ==
  /\ [](\A i, j \in 1..Len(snaps) : i < j => IsPrefix(snaps[i].seq, snaps[j].seq))
  /\ [][Len(data') >= Len(data)]_vars

C15_Witness ==
  /\ Len(snaps) = 2
  /\ Len(snaps[1].seq) = 1
  /\ Len(snaps[2].seq) = 2
  /\ hpc \in {"wait", "poll"}

\* C19: with concurrent requests, what a handler gathers holds results of its
\* own workers only, all of them, and a step of one request's worker leaves
\* the length and the flag of every other request's queue as they are.
C19_BatchIsolation ==
  /\ [](\A b \in Batches :
          /\ \A i \in 1..Len(bres[b]) : bres[b][i].batch = b
          /\ bpc[b] = "done" => Len(bres[b]) = BatchTasks)
  /\ [][\A b1, b2 \in Batches :
          (b1 # b2 /\ bwpc'[b1] # bwpc[b1] /\ sqOf[b2] # 0) =>
            /\ Len(heap'[sqOf[b2]].data) = Len(heap[sqOf[b2]].data)
            /\ heap'[sqOf[b2]].notify = heap[sqOf[b2]].notify]_vars

C19_Witness ==
  /\ bpc[1] = "done"
  /\ bpc[2] = "wait"
  /\ Len(bres[1]) = BatchTasks
  /\ Len(heap[sqOf[2]].data) = 1
  /\ sqOf[1] = 2 /\ sqOf[2] = 1

\* The positions of Pop between q.mutex.Lock() and q.mutex.Unlock().
PopLocked == {"checknotify", "retry", "head", "drop", "pop_notify", "pop_unlock"}

\* C21: strategy D: from its test of the flag to its toggle a Pop holds the
\* write lock without a break; between two changes of the flag at most one
\* removal happens; and the queue becomes empty only by the removal of a Pop
\* that holds the lock and whose next statement toggles the flag.
C21_ClaimAtomic ==
  /\ [](\A c \in Tasks : ypc[c] \in PopLocked => mutex = Y(c))
  /\ [][\A c \in Tasks : ypc[c] \in {"head", "drop", "pop_notify"} => mutex' = mutex]_vars
  /\ [](removedSince <= 1)
  /\ [][(Len(data) > 0 /\ Len(data') = 0) =>
         \E c \in Tasks : mutex = Y(c) /\ ypc[c] = "drop" /\ ypc'[c] = "pop_notify"]_vars
  /\ [][\A c \in Tasks : (ypc[c] = "pop_notify" /\ ypc'[c] # "pop_notify") =>
         (notify' # notify /\ mutex' = Y(c))]_vars

C21_Witness ==
  /\ strategy = "D"
  /\ pushMode = "FastPush"
  /\ Len(popOrder) = 2
  /\ data = <<>>
  /\ \E c \in Tasks : ypc[c] = "pop_unlock" /\ mutex = Y(c)

\* C22: a Pop goes on to the head removal only when it has read the flag as
\* "available", and when it is about to release the write lock after the
\* removal the flag reads "claimed": CheckNotify() would return true.
C22_PopLeavesClaimed ==
  /\ [][\A c \in Tasks : (ypc[c] = "checknotify" /\ ypc'[c] = "head") =>
         ~CheckNotify(notify)]_vars
  /\ [](\A c \in Tasks : ypc[c] = "pop_unlock" => CheckNotify(notify))

\* The goroutines that send on the handler's channel: the workers in
\* strategy B, the yield consumers in strategy D.
SendersDone ==
  /\ strategy = "B" => \A w \in 1..n : wpc[w] = "done"
  /\ strategy = "D" => \A c \in 1..n : ypc[c] = "done"

\* C23: strategies B and D: the channel is closed only when the handler has
\* received n values and every sender has completed its one send, and no
\* goroutine is ever left to send on the closed channel.
C23_NoSendAfterClose ==
  closed => (Len(results) = n /\ SendersDone)

\* C24: when the producers publish through FastPush the queue never holds
\* more than one item.
C24_SingleSlot ==
  pushMode = "FastPush" => Len(data) <= 1

\* C25: strategies B, C and D: the collector completes its gather step only
\* with at least n results, and it leaves the receive loop or the length poll
\* only when every one of the n workers has published.
C25_CollectorsCount ==
  /\ [](strategy \in {"B", "C", "D"} /\ hpc \in {"respond", "close", "done"} =>
          (Len(results) >= n /\ \A w \in 1..n : published[w] >= 1))
  /\ [][(hpc \in {"recv", "poll"} /\ hpc' \notin {hpc, "unwind"}) =>
          \A w \in 1..n : published[w] >= 1]_vars

\* The N-th receive of strategy B waits for a worker that has not sent.
C25_Witness ==
  /\ strategy = "B" /\ hpc = "recv" /\ n >= 2
  /\ recvd = n - 1 /\ Len(results) = n - 1 /\ channel = <<>>
  /\ \E w \in 1..n : wpc[w] = "fetch" /\ published[w] = 0

\* C26: strategy A: GetAll is called only after every one of the n workers
\* has finished; a worker has pushed before its wg.Done; wg.Wait returns only
\* at counter zero, the counter being the number of started unfinished workers.
C26_BarrierOrdering ==
  /\ [](strategy = "A" /\ hpc \notin {"dispatch", "wait"} =>
          \A w \in 1..n : wpc[w] = "done")
  /\ [](strategy = "A" => \A w \in Tasks : wpc[w] \in {"wgdone", "done"} => published[w] = 1)
  /\ [](strategy = "A" => wg = Cardinality({w \in 1..dispatched : wpc[w] # "done"}))
  /\ [][(strategy = "A" /\ hpc = "wait" /\ hpc' # "wait") => (wg = 0 /\ hpc' = "getall")]_vars

C26_Witness ==
  /\ strategy = "A" /\ n >= 2 /\ hpc = "respond"
  /\ Len(results) = n /\ \A w \in 1..n : wpc[w] = "done"

\* C27: strategy D: the items removed by Pop, in the order of the removals,
\* are a prefix of the items in the order of their appends.
C27_FifoRemoval ==
  strategy = "D" => IsPrefix(popOrder, lockOrder)

\* A Pop has removed the older of two items the queue held.
C27_Witness ==
  /\ strategy = "D" /\ Len(popOrder) = 1 /\ Len(lockOrder) = 2 /\ Len(data) = 1
  /\ popOrder[1] = lockOrder[1] /\ data[1].tag = lockOrder[2]
  /\ \E c \in Tasks : ypc[c] = "pop_notify" /\ mutex = Y(c)

\* C28: a consumer holds q.mutex only between the Lock of Pop and its
\* Unlock, never while it waits in Check or for the lock; the retry of the
\* loop body releases the lock before it re-enters Check.
C28_NoPollUnderLock ==
  /\ [](\A c \in Tasks : mutex = Y(c) => ypc[c] \in PopLocked)
  /\ [][\A c \in Tasks : (ypc[c] = "retry" /\ ypc'[c] # "retry") =>
          (mutex = Y(c) /\ mutex' = Free)]_vars

\* A consumer waits in Check on an empty queue while a producer holds the lock.
C28_Witness ==
  \E c \in Tasks, w \in Tasks :
    ypc[c] = "check" /\ Len(data) = 0 /\ mutex = W(w)

\* What has been sent on the channel: the values received, then the buffer.
SentD == results \o channel

\* C29: GetAllYielding starts count consumers; each performs one Pop and one
\* send of the item it popped, and nothing else is sent on the channel.
C29_YieldCount ==
  /\ [](strategy = "D" /\ hpc # "dispatch" =>
          Cardinality({c \in Tasks : ypc[c] # "idle"}) = n - count)
  /\ [](strategy = "D" =>
          /\ Len(SentD) = Cardinality({c \in Tasks : ypc[c] = "done"})
          /\ Len(popOrder) =
               Cardinality({c \in Tasks : ypc[c] \in {"pop_notify", "pop_unlock", "send", "done"}})
          /\ \A i \in 1..Len(SentD) :
               \E c \in Tasks : ypc[c] = "done" /\ SentD[i] = tmp[c])
  /\ [][\A c \in Tasks : ypc[c] = "done" => ypc'[c] = "done"]_vars

C29_Witness ==
  /\ strategy = "D" /\ n = 2 /\ count = 0
  /\ \A c \in 1..n : ypc[c] = "done"
  /\ Len(results) = 2 /\ TagsOf(results) = {1, 2}

\* C30: a Pop that reads the flag as claimed releases the lock and leaves the
\* sequence and the flag as they are, and passes Check (length >= 1) again
\* before it takes the lock.
C30_RetryNoEffect ==
  /\ [][\A c \in Tasks : (ypc[c] = "checknotify" /\ ypc'[c] = "retry") =>
          (CheckNotify(notify) /\ data' = data /\ notify' = notify)]_vars
  /\ [][\A c \in Tasks : (ypc[c] = "retry" /\ ypc'[c] # "retry") =>
          (data' = data /\ notify' = notify /\ mutex' = Free /\ ypc'[c] = "check")]_vars
  /\ [][\A c \in Tasks : (ypc[c] = "check" /\ ypc'[c] # "check") =>
          (Len(data) >= 1 /\ ypc'[c] = "lock" /\ mutex' = mutex)]_vars

\* A Pop holding the lock has read the flag as claimed with an item queued.
C30_Witness ==
  \E c \in Tasks :
    ypc[c] = "retry" /\ mutex = Y(c) /\ Len(data) >= 1 /\ CheckNotify(notify)

\* C31: strategy B: the handler goes from its dispatch loop straight to the
\* receive loop, and a receive with a value in the channel is never held
\* back by workers that have not sent.
C31_NoBarrierBeforeReceive ==
  /\ [][(strategy = "B" /\ hpc = "dispatch" /\ hpc' # "dispatch") => hpc' = "recv"]_vars
  /\ []((strategy = "B" /\ ~panicked /\ hpc = "recv" /\ recvd < n /\ Len(channel) > 0) =>
          ENABLED Recv)

\* The collector has received a result while a worker has not yet sent.
C31_Witness ==
  /\ strategy = "B" /\ n >= 2 /\ hpc = "recv"
  /\ recvd >= 1 /\ Len(results) >= 1
  /\ \E w \in 1..n : wpc[w] = "fetch" /\ published[w] = 0

\* Goroutine g holds the lock.
HoldsSeq(g) == seqW = g \/ g \in seqR
HoldsNtf(g) == ntfW = g \/ g \in ntfR

\* The next step of g is a Lock or RLock of the lock.
WantsSeq(g) == gpc[g][2] = "rlock" \/ gpc[g][1] \in {"try_lock", "push_lock", "lock"}
WantsNtf(g) == gpc[g][2] \in {"nlock", "nrlock"}

\* C32: no goroutine waits for q.mutex while it holds q.NotifyMutex; there is
\* no pair of goroutines each holding one lock and waiting for the other; and
\* a holder of q.NotifyMutex can always take its next step, the release.
C32_NoLockOrderCycle ==
  /\ [](\A g \in Lockers : HoldsNtf(g) => ~WantsSeq(g))
  /\ [](\A g, h \in Lockers :
          ~(HoldsSeq(g) /\ WantsNtf(g) /\ HoldsNtf(h) /\ WantsSeq(h)))
  /\ [](\A g \in Lockers : (HoldsNtf(g) /\ ~panicked) => ENABLED (LkNUnlock(g) \/ LkNRUnlock(g)))

\* A goroutine holding q.mutex waits for q.NotifyMutex, which another holds.
C32_Witness ==
  \E g, h \in Lockers :
    /\ g # h /\ seqW = g /\ WantsNtf(g)
    /\ ntfW = h /\ ~HoldsSeq(h)

\* C33: every access to q.data is made under q.mutex: a goroutine at an
\* append or at the head removal holds it exclusively, and no read of the
\* sequence is made while another goroutine holds it exclusively.
C33_LockedAccess ==
  /\ \A w \in Tasks : wpc[w] \in {"push_append", "try_append"} => mutex = W(w)
  /\ \A c \in Tasks : ypc[c] \in {"head", "drop"} => mutex = Y(c)
  /\ qlog.during = Free

\* Every FastPush call of the batch has returned.
ProducersReturned == \A w \in 1..n : wpc[w] = "done"

\* C34: strategy D with FastPush producers, under fair scheduling: every
\* FastPush call eventually returns.  A run that ends in the panic of C2 is
\* not counted against the claim here, so that what refutes it is a FastPush
\* that retries for ever in a process that goes on running.
C34_ProducersTerminate ==
  (strategy = "D" /\ pushMode = "FastPush") => <>(ProducersReturned \/ panicked)

\* C35: strategy B: the channel never buffers more than n items, at most n
\* sends are made, and a worker that has reached its send finds room in the
\* buffer: its send is a step it can take without a receive coming first.
C35_SendsNeverBlock ==
  strategy = "B" =>
    /\ Len(channel) <= n
    /\ Len(channel) + Len(results) = Cardinality({w \in Tasks : published[w] = 1})
    /\ \A w \in Tasks : published[w] <= 1
    /\ \A w \in Tasks : wpc[w] = "send" =>
         (Len(channel) < ChanCap /\ (~panicked => ENABLED Send(w)))

\* Every worker has sent before the collector has received anything.
C35_Witness ==
  /\ strategy = "B" /\ n >= 2 /\ hpc = "recv" /\ recvd = 0 /\ results = <<>>
  /\ Len(channel) = n /\ \A w \in 1..n : wpc[w] = "done"

\* Goroutine g is in no method of the queue: it has not called one or its
\* call has returned.
Outside(g) == gpc[g][1] \in {"idle", "returned"}

\* C36: a goroutine that is in no queue method holds neither lock, a Pop
\* that is back in Check or waiting for the Lock after a retry holds
\* neither, every holder of a lock is inside the section that took it, and
\* when no method is in progress both locks are free.
C36_NoLeakedLock ==
  /\ \A g \in Lockers : Outside(g) => (~HoldsSeq(g) /\ ~HoldsNtf(g))
  /\ \A g \in Lockers : gpc[g][1] \in {"check", "lock"} => (seqW # g /\ ~HoldsNtf(g))
  /\ seqW \in Lockers \cup {NoOwner} /\ ntfW \in Lockers \cup {NoOwner}
  /\ \A g \in Lockers : g \in seqR <=> gpc[g][2] = "runlock"
  /\ \A g \in Lockers : ntfW = g <=> gpc[g][2] = "nunlock"
  /\ \A g \in Lockers : g \in ntfR <=> gpc[g][2] = "nrunlock"
  /\ (\A g \in Lockers : Outside(g)) =>
       (seqW = NoOwner /\ seqR = {} /\ ntfW = NoOwner /\ ntfR = {})

\* A FastPush, a Push and a Pop have all returned.
C36_Witness ==
  /\ \A g \in Lockers : gpc[g] = <<"returned", "">>
  /\ \E g \in Lockers : gop[g] = "Pop"
  /\ \E g \in Lockers : gop[g] = "FastPush"
  /\ seqW = NoOwner /\ ntfW = NoOwner

\* Appends to q.data and head removals completed so far.
CompletedAppends ==
  IF strategy = "B" THEN 0 ELSE Cardinality({w \in Tasks : published[w] >= 1})
CompletedRemovals == Len(popOrder)

\* C37: the length of q.data is the number of completed appends minus the
\* number of completed head removals, and there are never more removals
\* than appends.
C37_LengthAccounting ==
  /\ strategy # "B" => \A w \in Tasks : published[w] <= 1
  /\ CompletedRemovals <= CompletedAppends
  /\ Len(data) + CompletedRemovals = CompletedAppends

\* Two appends and one removal have left one item in the queue.
C37_Witness ==
  /\ strategy = "D" /\ CompletedAppends = 2 /\ CompletedRemovals = 1
  /\ Len(data) = 1

====
